---- MODULE Spec2Model ----
(***************************************************************************)
(* The presentation state machine of photo-slideshow: the refactored       *)
(* coordinator src/src/photo-slideshow.js (class PhotoSlideshow) together  *)
(* with the display surface (Viewer) it drives.  Every handler is a        *)
(* function from the coordinator's state to its next state; one action per *)
(* key binding, per viewer event and per timer firing.                     *)
(***************************************************************************)
EXTENDS Integers, Sequences, FiniteSets, TLC

\* ------------------------------------------------------------------ bounds
\* Largest configured collection the model starts from.
MaxImages == 3
\* Longest note list; imageFailed and addNote are not taken beyond it.
MaxNotes == 2
\* Preparation requests the display surface keeps in flight at once.
MaxInflight == 2
\* slowDown is not taken from MINIMUM_TIMEOUT + MaxSlowSteps * 500 ms or above.
MaxSlowSteps == 1

\* --------------------------------------------------------------- constants
\* JavaScript null for an index or a timer handle.
NULL == -1
MINIMUM_TIMEOUT == 500
TIMEOUT_STEP == 500

\* The configured image list: image i of the config file, by position.
ImageIds == 1 .. MaxImages

\* The url of image i, as its sequence of characters.
Url(i) ==
  CASE i = 1 -> <<"c", "/", "1">>
    [] i = 2 -> <<"a", "/", "b", "/", "2">>
    [] i = 3 -> <<"a", "/", "b", "2", "/", "3">>
    [] i = 4 -> <<"a", "/", "b", "/", "4">>
    [] OTHER -> <<"c", "/", ToString(i)>>

\* The timeout the config file sets (config.timeout): above MINIMUM_TIMEOUT and
\* not a multiple of the 500 ms step.
ConfigTimeouts == {700}

\* Milliseconds between the last display and a load completing (now - previousShow).
ElapsedSamples == {200, 2000}

\* ----------------------------------------------------------------- helpers
\* seq with the element at 0-based position index removed (Array.splice(index, 1)).
Splice(seq, index) ==
  [k \in 1 .. (Len(seq) - 1) |-> IF k <= index THEN seq[k] ELSE seq[k + 1]]

\* Array.findIndex(i => i.url === url): 0-based, -1 when absent.
FindIndex(seq, img) ==
  IF \E k \in 1 .. Len(seq) : Url(seq[k]) = Url(img)
    THEN (CHOOSE k \in 1 .. Len(seq) :
            /\ Url(seq[k]) = Url(img)
            /\ \A j \in 1 .. (k - 1) : Url(seq[j]) # Url(img)) - 1
    ELSE -1

\* Array.filter(pred), order kept.
RECURSIVE FilterSeq(_, _)
FilterSeq(seq, keep) ==
  IF seq = <<>> THEN <<>>
  ELSE IF Head(seq) \in keep THEN <<Head(seq)>> \o FilterSeq(Tail(seq), keep)
  ELSE FilterSeq(Tail(seq), keep)

\* url.replace(/\/[^/]*$/, ''): the url up to, and not including, its last '/';
\* the whole url when it holds no '/'.
PathOf(url) ==
  IF \E k \in 1 .. Len(url) : url[k] = "/"
    THEN SubSeq(url, 1, (CHOOSE k \in 1 .. Len(url) :
                           /\ url[k] = "/"
                           /\ \A j \in (k + 1) .. Len(url) : url[j] # "/") - 1)
    ELSE url

\* String.startsWith(path).
StartsWith(url, path) ==
  /\ Len(path) <= Len(url)
  /\ SubSeq(url, 1, Len(path)) = path

\* ------------------------------------------------------------------- state
VARIABLES
  configImages,     \* config.images: the configured array (spliced in place when not in focus mode)
  focusImages,      \* the filtered array this.images refers to in focus mode
  inFocus,          \* this.images !== this.config.images
  notes,            \* this.notes
  showNextTimeout,  \* this.showNextTimeout: the handle of the advance timer, or NULL
  timers,           \* the timers setTimeout has armed and clearTimeout has not cleared
  paused,           \* this.paused
  previousShow,     \* this.previousShow is set (a Date) or null
  timeout,          \* this.timeout, ms
  showIndex,        \* viewer.showIndex
  shown,            \* the image in the viewer's visible slot, 0 when none
  preloadIndex,     \* viewer: index of the latest preparation request, or NULL
  preloadItem,      \* viewer: image of the latest preparation request, 0 when none
  inflight,         \* viewer: the preparation requests not yet answered
  thrown,           \* the last handler ended with an uncaught TypeError
  log               \* what the last handler did: its preload calls and displays, in order

vars == <<configImages, focusImages, inFocus, notes, showNextTimeout, timers, paused,
          previousShow, timeout, showIndex, shown, preloadIndex, preloadItem,
          inflight, thrown, log>>

\* The state as one record, so that a handler is a function on it.
St ==
  [configImages |-> configImages, focusImages |-> focusImages, inFocus |-> inFocus,
   notes |-> notes, showNextTimeout |-> showNextTimeout, timers |-> timers,
   paused |-> paused, previousShow |-> previousShow, timeout |-> timeout,
   showIndex |-> showIndex, shown |-> shown, preloadIndex |-> preloadIndex,
   preloadItem |-> preloadItem, inflight |-> inflight, thrown |-> thrown, log |-> log]

\* this.images: config.images itself, or the focus array.
Images(s) == IF s.inFocus THEN s.focusImages ELSE s.configImages

\* this.images[index], 0 for undefined (index null or outside the array).
ImageAt(s, index) ==
  IF index >= 0 /\ index < Len(Images(s)) THEN Images(s)[index + 1] ELSE 0

Logged(s, op, index, item) ==
  [s EXCEPT !.log = Append(@, [op |-> op, index |-> index, item |-> item,
                               len |-> Len(Images(s))])]

\* ------------------------------------------------------ the display surface
\* viewer.nextIndex / viewer.previousIndex: showIndex + 1 and showIndex - 1,
\* in JavaScript arithmetic (null + 1 is 1, null - 1 is -1).
ViewerNextIndex(s) == IF s.showIndex = NULL THEN 1 ELSE s.showIndex + 1

ViewerPreviousIndex(s) == IF s.showIndex = NULL THEN -1 ELSE s.showIndex - 1

\* viewer.preload(item, index): a preparation request is issued; it is answered
\* later by imageLoaded(item, index) or imageFailed(item, index).  Requests it
\* supersedes stay in preparation, up to MaxInflight in all; beyond that the
\* superseded ones are abandoned and never answer.
ViewerPreload(s, item, index) ==
  LET q == s.inflight \cup {[item |-> item, index |-> index]}
  IN [s EXCEPT !.preloadIndex = index,
               !.preloadItem = item,
               !.inflight = IF Cardinality(q) > MaxInflight
                              THEN {[item |-> item, index |-> index]} ELSE q]

\* viewer.cancelPreload(): aborts what is in preparation.
ViewerCancelPreload(s) ==
  [s EXCEPT !.preloadIndex = NULL, !.preloadItem = 0, !.inflight = {}]

\* viewer.showPreloaded(): the latest prepared item goes to the visible slot.
ViewerShowPreloaded(s) ==
  Logged([s EXCEPT !.showIndex = s.preloadIndex,
                   !.shown = s.preloadItem,
                   !.preloadIndex = NULL,
                   !.preloadItem = 0],
         "show", s.preloadIndex, s.preloadItem)

\* ------------------------------------------------------------ the coordinator
\* get currentImage(): null (0) before the first display, else images[showIndex].
CurrentImage(s) == IF s.showIndex = NULL THEN 0 ELSE ImageAt(s, s.showIndex)

\* stopTimeout that forgets clearTimeout: the handle is dropped, the timer stays armed.
stopTimeout_NoClear(s) == [s EXCEPT !.showNextTimeout = NULL]

stopTimeout(s) ==
  IF s.showNextTimeout # NULL
    THEN [s EXCEPT !.timers = {t \in @ : t.id # s.showNextTimeout},
                   !.showNextTimeout = NULL]
    ELSE s

\* preload(index): `next.url` throws when images[index] is undefined.
preload(s, index) ==
  LET s1 == Logged(stopTimeout(s), "preload", index, ImageAt(s, index))
  IN IF ImageAt(s1, index) = 0
       THEN [s1 EXCEPT !.thrown = TRUE]
       ELSE ViewerPreload(s1, ImageAt(s1, index), index)

showPreloadingImageImmediatly(s) == [s EXCEPT !.previousShow = FALSE]

\* next() that wraps only past the length (`>` for `>=`).
next_WrapsLate(s) ==
  LET nextIndex == IF ViewerNextIndex(s) > Len(Images(s)) THEN 0 ELSE ViewerNextIndex(s)
  IN preload(s, nextIndex)

next(s) ==
  LET nextIndex == IF ViewerNextIndex(s) >= Len(Images(s)) THEN 0 ELSE ViewerNextIndex(s)
  IN preload(s, nextIndex)

previous(s) ==
  LET previousIndex == IF ViewerPreviousIndex(s) < 0 THEN Len(Images(s)) - 1
                       ELSE ViewerPreviousIndex(s)
  IN preload(s, previousIndex)

\* removeImage that tests `index === null` and has no last-image guard.
removeImage_NoLastGuard(s, index) ==
  IF index = NULL THEN s
  ELSE IF index > Len(Images(s)) - 1 THEN s
  ELSE IF s.inFocus THEN [s EXCEPT !.focusImages = Splice(@, index)]
  ELSE [s EXCEPT !.configImages = Splice(@, index)]

\* removeImage that splices config.images even in focus mode.
removeImage_SplicesConfig(s, index) ==
  IF index = NULL \/ index = 0 THEN s
  ELSE IF index > Len(Images(s)) - 1 THEN s
  ELSE IF Len(Images(s)) = 1 THEN s
  ELSE IF s.inFocus
    THEN [s EXCEPT !.focusImages = Splice(@, index),
                   !.configImages = FilterSeq(@, {i \in ImageIds : i # s.focusImages[index + 1]})]
  ELSE [s EXCEPT !.configImages = Splice(@, index)]

\* removeImage(index): `!index` holds for null and for 0.
removeImage(s, index) ==
  IF index = NULL \/ index = 0 THEN s
  ELSE IF index > Len(Images(s)) - 1 THEN s
  ELSE IF Len(Images(s)) = 1 THEN s
  ELSE IF s.inFocus THEN [s EXCEPT !.focusImages = Splice(@, index)]
  ELSE [s EXCEPT !.configImages = Splice(@, index)]

showPreloaded(s) ==
  LET s1 == ViewerShowPreloaded([s EXCEPT !.showNextTimeout = NULL])
  IN next([s1 EXCEPT !.previousShow = TRUE])

\* setTimeout(showPreloaded, remainder): a fresh handle.
FreshTimer(s) == CHOOSE n \in 1 .. (Cardinality(s.timers) + 1) : \A t \in s.timers : t.id # n

\* imageLoaded that arms the timer with the whole timeout, not the remainder.
imageLoaded_FullTimeout(s, image, index, elapsed) ==
  LET s1 == stopTimeout(s)
      remainder == s1.timeout - elapsed
  IN IF ~s1.previousShow THEN showPreloaded(s1)
     ELSE IF remainder < 0 THEN showPreloaded(s1)
     ELSE [s1 EXCEPT !.showNextTimeout = FreshTimer(s1),
                     !.timers = @ \cup {[id |-> FreshTimer(s1), delay |-> s1.timeout]}]

\* imageLoaded(image, index), with elapsed = now - previousShow read from the clock.
imageLoaded(s, image, index, elapsed) ==
  LET s1 == stopTimeout(s)
      remainder == s1.timeout - elapsed
  IN IF ~s1.previousShow THEN showPreloaded(s1)
     ELSE IF remainder < 0 THEN showPreloaded(s1)
     ELSE [s1 EXCEPT !.showNextTimeout = FreshTimer(s1),
                     !.timers = @ \cup {[id |-> FreshTimer(s1), delay |-> remainder]}]

\* The note imageFailed pushes, `Missing ${image.url}`, and the one addNote pushes, image.url.
MissingNote(image) == <<"Missing ">> \o Url(image)

imageFailed(s, image, index) ==
  LET s1 == [s EXCEPT !.notes = Append(@, MissingNote(image))]
      s2 == removeImage(s1, index)
      nextIndex == IF index = Len(Images(s2)) THEN 0 ELSE index
  IN preload(showPreloadingImageImmediatly(s2), nextIndex)

\* removeCurrent(): nextIndex is computed and preload is given index.
removeCurrent(s) ==
  LET s1 == stopTimeout(s)
      index == s1.showIndex
      s2 == removeImage(s1, index)
      nextIndex == IF index = Len(Images(s2)) THEN 0 ELSE index
  IN preload(showPreloadingImageImmediatly(s2), index)

goToNext(s) == next(showPreloadingImageImmediatly(stopTimeout(s)))

goToPrevious(s) == previous(showPreloadingImageImmediatly(s))

\* addNote(): `image.url` throws when images[showIndex] is undefined.
addNote(s) ==
  LET index == s.showIndex
      image == ImageAt(s, index)
  IN IF index = NULL THEN s
     ELSE IF image = 0 THEN [s EXCEPT !.thrown = TRUE]
     ELSE IF \E k \in 1 .. Len(s.notes) : s.notes[k] = Url(image) THEN s
     ELSE [s EXCEPT !.notes = Append(@, Url(image))]

resetNotes(s) == [s EXCEPT !.notes = <<>>]

slowDown(s) == [s EXCEPT !.timeout = @ + TIMEOUT_STEP]

speedUp(s) ==
  IF s.timeout <= MINIMUM_TIMEOUT THEN s
  ELSE [s EXCEPT !.timeout = @ - TIMEOUT_STEP]

\* The images of config.images whose url starts with the current url's path.
FocusSet(s, current) ==
  FilterSeq(s.configImages,
            {i \in ImageIds : StartsWith(Url(i), PathOf(Url(current)))})

toggleFocusMode(s) ==
  LET current == CurrentImage(s)
      s1 == ViewerCancelPreload(stopTimeout(s))
      s2 == IF s1.inFocus
              THEN [s1 EXCEPT !.inFocus = FALSE, !.focusImages = <<>>]
              ELSE [s1 EXCEPT !.inFocus = TRUE, !.focusImages = FocusSet(s1, current)]
      currentIndex == FindIndex(Images(s2), current)
      nextIndex == IF currentIndex = Len(Images(s2)) - 1 THEN 0 ELSE currentIndex + 1
  IN IF current = 0 THEN s ELSE preload(s2, nextIndex)

togglePause(s) ==
  IF s.paused
    THEN LET s1 == next(s)
         IN IF s1.thrown THEN s1 ELSE [s1 EXCEPT !.paused = FALSE]
    ELSE [ViewerCancelPreload(stopTimeout(s)) EXCEPT !.paused = TRUE]

\* ----------------------------------------------------------------- actions
\* A handler runs to completion (or to its throw) and leaves state s behind.
Run(s) ==
  /\ configImages' = s.configImages
  /\ focusImages' = s.focusImages
  /\ inFocus' = s.inFocus
  /\ notes' = s.notes
  /\ showNextTimeout' = s.showNextTimeout
  /\ timers' = s.timers
  /\ paused' = s.paused
  /\ previousShow' = s.previousShow
  /\ timeout' = s.timeout
  /\ showIndex' = s.showIndex
  /\ shown' = s.shown
  /\ preloadIndex' = s.preloadIndex
  /\ preloadItem' = s.preloadItem
  /\ inflight' = s.inflight
  /\ thrown' = s.thrown
  /\ log' = s.log

\* The state a handler starts from.
Entry == [St EXCEPT !.thrown = FALSE, !.log = <<>>]

\* The state with request r of those in flight answered.
Answered(r) == [Entry EXCEPT !.inflight = @ \ {r}]

\* new PhotoSlideshow(...).run(), then configLoaded(): the collection and the
\* timeout come from the config file and preload(0) is issued.
Constructed(n, ms) ==
  [configImages |-> [k \in 1 .. n |-> k], focusImages |-> <<>>, inFocus |-> FALSE,
   notes |-> <<>>, showNextTimeout |-> NULL, timers |-> {}, paused |-> FALSE,
   previousShow |-> FALSE, timeout |-> ms, showIndex |-> NULL, shown |-> 0,
   preloadIndex |-> NULL, preloadItem |-> 0, inflight |-> {}, thrown |-> FALSE,
   log |-> <<>>]

Init ==
  \E n \in 1 .. MaxImages, ms \in ConfigTimeouts :
    LET s == preload(Constructed(n, ms), 0)
    IN /\ configImages = s.configImages
       /\ focusImages = s.focusImages
       /\ inFocus = s.inFocus
       /\ notes = s.notes
       /\ showNextTimeout = s.showNextTimeout
       /\ timers = s.timers
       /\ paused = s.paused
       /\ previousShow = s.previousShow
       /\ timeout = s.timeout
       /\ showIndex = s.showIndex
       /\ shown = s.shown
       /\ preloadIndex = s.preloadIndex
       /\ preloadItem = s.preloadItem
       /\ inflight = s.inflight
       /\ thrown = s.thrown
       /\ log = s.log

\* The display surface answers a request with success.
ImageLoaded ==
  \E r \in inflight, elapsed \in ElapsedSamples :
    Run(imageLoaded(Answered(r), r.item, r.index, elapsed))

\* The display surface answers a request with failure.
ImageFailed ==
  /\ Len(notes) < MaxNotes
  /\ \E r \in inflight : Run(imageFailed(Answered(r), r.item, r.index))

\* The advance timer fires: showPreloaded runs.
TimerFires ==
  \E t \in timers :
    Run(showPreloaded([Entry EXCEPT !.timers = @ \ {t}]))

KeyDel == Run(removeCurrent(Entry))

KeyRight == Run(goToNext(Entry))

KeyLeft == Run(goToPrevious(Entry))

KeyF == Run(toggleFocusMode(Entry))

KeySpace == Run(togglePause(Entry))

KeyN ==
  /\ Len(notes) < MaxNotes
  /\ Run(addNote(Entry))

KeyR == Run(resetNotes(Entry))

KeyPlus == Run(speedUp(Entry))

KeyMinus ==
  /\ timeout < MINIMUM_TIMEOUT + MaxSlowSteps * TIMEOUT_STEP
  /\ Run(slowDown(Entry))

Next ==
  \/ ImageLoaded
  \/ ImageFailed
  \/ TimerFires
  \/ KeyDel
  \/ KeyRight
  \/ KeyLeft
  \/ KeyF
  \/ KeySpace
  \/ KeyN
  \/ KeyR
  \/ KeyPlus
  \/ KeyMinus

Spec == Init /\ [][Next]_vars

\* The coordinator alone: the viewer's events, the timer and the commands that
\* move, remove, rescope or pause; the note and rate keys are left out.
NextCore ==
  \/ ImageLoaded
  \/ ImageFailed
  \/ TimerFires
  \/ KeyDel
  \/ KeyRight
  \/ KeyLeft
  \/ KeyF
  \/ KeySpace

SpecCore == Init /\ [][NextCore]_vars

\* The slideshow with every preparation succeeding: all the keys that leave the
\* note ledger alone, the timer and imageLoaded; imageFailed is left out.
NextTiming ==
  \/ ImageLoaded
  \/ TimerFires
  \/ KeyDel
  \/ KeyRight
  \/ KeyLeft
  \/ KeyF
  \/ KeySpace
  \/ KeyPlus
  \/ KeyMinus

SpecTiming == Init /\ [][NextTiming]_vars

\* Removal and rescoping alone: the viewer's events, the timer, delete and the
\* focus toggle; the skip, pause, note and rate keys are left out.
NextRemoval ==
  \/ ImageLoaded
  \/ ImageFailed
  \/ TimerFires
  \/ KeyDel
  \/ KeyF

SpecRemoval == Init /\ [][NextRemoval]_vars

\* ------------------------------------- the older monolithic coordinator
\* src/photo-slideshow.js keeps the display in the coordinator itself: index is
\* held in showIndex, images in configImages, and the one Image() preloader's
\* request in inflight (assigning preloader.src replaces the request).
\* stopTimeout and showPreloadingImageImmediatly are the same in both versions.
Old_preload(s, index) ==
  LET s1 == Logged(stopTimeout(s), "preload", index, ImageAt(s, index))
  IN IF ImageAt(s1, index) = 0
       THEN [s1 EXCEPT !.thrown = TRUE]
       ELSE [s1 EXCEPT !.preloadIndex = index,
                       !.preloadItem = ImageAt(s1, index),
                       !.inflight = {[item |-> ImageAt(s1, index), index |-> index]}]

Old_previous(s) ==
  LET nextIndex == IF s.showIndex < 1 THEN Len(s.configImages) - 1 ELSE s.showIndex - 1
  IN Old_preload(s, nextIndex)

Old_next(s) ==
  LET nextIndex == IF s.showIndex < Len(s.configImages) - 1 THEN s.showIndex + 1 ELSE 0
  IN Old_preload(s, nextIndex)

\* removeCurrent(): `image.url` throws when images[index] is undefined.
Old_removeCurrent(s) ==
  IF Len(s.configImages) <= 1 THEN s
  ELSE IF ImageAt(s, s.showIndex) = 0 THEN [s EXCEPT !.thrown = TRUE]
  ELSE LET s1 == [s EXCEPT !.configImages = Splice(@, s.showIndex)]
       IN IF s1.showIndex = Len(s1.configImages) + 1
            THEN [s1 EXCEPT !.showIndex = 0]
            ELSE s1

\* showNext(): the preloader's image goes on display, then next().
Old_showNext(s) ==
  LET s1 == [s EXCEPT !.showIndex = s.preloadIndex, !.preloadIndex = NULL]
      s2 == Logged([s1 EXCEPT !.showNextTimeout = NULL, !.shown = s.preloadItem,
                              !.preloadItem = 0, !.previousShow = TRUE],
                   "show", s1.showIndex, s.preloadItem)
  IN IF ImageAt(s1, s1.showIndex) = 0
       THEN [s1 EXCEPT !.thrown = TRUE]
       ELSE Old_next(s2)

Old_imageLoaded(s, elapsed) ==
  LET remainder == s.timeout - elapsed
  IN IF ImageAt(s, s.preloadIndex) = 0 THEN [s EXCEPT !.thrown = TRUE]
     ELSE IF ~s.previousShow THEN Old_showNext(s)
     ELSE IF remainder < 0 THEN Old_showNext(s)
     ELSE [s EXCEPT !.showNextTimeout = FreshTimer(s),
                    !.timers = @ \cup {[id |-> FreshTimer(s), delay |-> remainder]}]

\* imageFailed(): reads and removes images[this.index].
Old_imageFailed(s) ==
  IF ImageAt(s, s.showIndex) = 0 THEN [s EXCEPT !.thrown = TRUE]
  ELSE LET s1 == Old_removeCurrent(s)
       IN IF s1.thrown THEN s1
          ELSE Old_preload(showPreloadingImageImmediatly(s1), s1.showIndex)

\* keydown, <spacebar>: an armed timer means running.
Old_keySpace(s) ==
  IF s.showNextTimeout # NULL THEN stopTimeout(s)
  ELSE Old_preload(showPreloadingImageImmediatly(s), s.showIndex)

Old_keyLeft(s) == Old_previous(showPreloadingImageImmediatly(s))

Old_keyRight(s) == Old_next(showPreloadingImageImmediatly(s))

Old_keyDel(s) ==
  LET s1 == Old_removeCurrent(stopTimeout(s))
  IN IF s1.thrown THEN s1
     ELSE Old_preload(showPreloadingImageImmediatly(s1), s1.showIndex)

\* start(): index = 0 and preload(0), once the config is there.
OldInit ==
  \E n \in 1 .. MaxImages, ms \in ConfigTimeouts :
    LET s == Old_preload([Constructed(n, ms) EXCEPT !.showIndex = 0], 0)
    IN /\ configImages = s.configImages
       /\ focusImages = s.focusImages
       /\ inFocus = s.inFocus
       /\ notes = s.notes
       /\ showNextTimeout = s.showNextTimeout
       /\ timers = s.timers
       /\ paused = s.paused
       /\ previousShow = s.previousShow
       /\ timeout = s.timeout
       /\ showIndex = s.showIndex
       /\ shown = s.shown
       /\ preloadIndex = s.preloadIndex
       /\ preloadItem = s.preloadItem
       /\ inflight = s.inflight
       /\ thrown = s.thrown
       /\ log = s.log

\* preloader.onload
OldImageLoaded ==
  /\ inflight # {}
  /\ \E elapsed \in ElapsedSamples :
       Run(Old_imageLoaded([Entry EXCEPT !.inflight = {}], elapsed))

\* preloader.onerror
OldImageFailed ==
  /\ inflight # {}
  /\ Run(Old_imageFailed([Entry EXCEPT !.inflight = {}]))

OldTimerFires ==
  \E t \in timers :
    Run(Old_showNext([Entry EXCEPT !.timers = @ \ {t}]))

OldKeySpace == Run(Old_keySpace(Entry))

OldKeyLeft == Run(Old_keyLeft(Entry))

OldKeyRight == Run(Old_keyRight(Entry))

OldKeyDel == Run(Old_keyDel(Entry))

\* The rate and log-level keys are left out.
NextOld ==
  \/ OldImageLoaded
  \/ OldImageFailed
  \/ OldTimerFires
  \/ OldKeySpace
  \/ OldKeyLeft
  \/ OldKeyRight
  \/ OldKeyDel

SpecOld == OldInit /\ [][NextOld]_vars

\* ============================================================== properties
\* The active set, this.images, in the current state.
ActiveSet == Images(St)

\* The preload calls of the last handler, as positions of its log.
PreloadCalls == {k \in 1 .. Len(log) : log[k].op = "preload"}

\* The last preload call of the last handler (the request it leaves pending).
LastPreload == log[CHOOSE k \in PreloadCalls : \A j \in PreloadCalls : j <= k]

InRange(index, len) == index >= 0 /\ index < len

\* C1: every index given to preload(index) and every index displayed is inside
\* the active set, 0 <= index < images.length, at the moment it is used.  (A
\* call given null, which is no index, is left to C4.)
C1_IndicesInRange ==
  \A k \in 1 .. Len(log) :
    log[k].index # NULL => InRange(log[k].index, log[k].len)

\* C2: imageFailed(item, index), on an active set of two or more holding item at
\* index, removes the item, shrinks the active set by exactly one and re-issues
\* preload for a valid index whose item is not the failed one.
C2_FailedItemEvicted ==
  [][\A r \in inflight :
       ( /\ Len(ActiveSet) >= 2
         /\ InRange(r.index, Len(ActiveSet))
         /\ ImageAt(St, r.index) = r.item
         /\ Len(notes) < MaxNotes
         /\ Run(imageFailed(Answered(r), r.item, r.index)) )
       => ( /\ Len(ActiveSet') = Len(ActiveSet) - 1
            /\ \A k \in 1 .. Len(ActiveSet') : ActiveSet'[k] # r.item
            /\ PreloadCalls' # {}
            /\ InRange(LastPreload'.index, Len(ActiveSet'))
            /\ LastPreload'.item # r.item )]_vars

\* C3: deleting the current image at displayed index i of an active set of two
\* or more removes exactly that element, keeps the order of the rest, and calls
\* preload for i, or for 0 when i was the last index, with lastShownAt cleared.
C3_DeleteCurrent ==
  [][( /\ showIndex # NULL
       /\ InRange(showIndex, Len(ActiveSet))
       /\ Len(ActiveSet) >= 2
       /\ KeyDel )
     => ( /\ ActiveSet' = Splice(ActiveSet, showIndex)
          /\ PreloadCalls' # {}
          /\ LastPreload'.index = (IF showIndex = Len(ActiveSet) - 1 THEN 0 ELSE showIndex)
          /\ ~previousShow' )]_vars

\* C4: no handler ends with a thrown fault.
C4_NoHandlerThrows == ~thrown

\* C5: at most one advance timer is live, and a handler that calls preload or
\* pauses leaves no timer armed: nothing scheduled before it can still fire.
C5_OneLiveTimer ==
  /\ [](/\ Cardinality(timers) <= 1
        /\ \A t \in timers : t.id = showNextTimeout
        /\ PreloadCalls # {} => timers = {})
  /\ [][(~paused /\ paused') => timers' = {}]_vars

\* A timer is armed for the remainder of the wait, and its handle is held.
C5_Witness ==
  /\ Cardinality(timers) = 1
  /\ showNextTimeout # NULL
  /\ previousShow
  /\ Len(ActiveSet) >= 2

\* The request the viewer holds as pending: the latest one issued.
Pending == [item |-> preloadItem, index |-> preloadIndex]

\* C6: the answer, success or failure, to a request that a later preload has
\* superseded displays nothing, arms no timer, removes nothing and leaves the
\* pending request as it is.
C6_LatestRequestWins ==
  [][\A r \in inflight :
       ( /\ r # Pending
         /\ \/ \E e \in ElapsedSamples : Run(imageLoaded(Answered(r), r.item, r.index, e))
            \/ Len(notes) < MaxNotes /\ Run(imageFailed(Answered(r), r.item, r.index)) )
       => ( /\ showIndex' = showIndex
            /\ shown' = shown
            /\ timers' = timers
            /\ ActiveSet' = ActiveSet
            /\ previousShow' = previousShow
            /\ Pending' = Pending )]_vars

\* C7: the active set is never empty, and a removal attempted on an active set
\* of one (by delete or by a failed load) leaves it as it is.
C7_NeverEmpty ==
  /\ [](Len(ActiveSet) >= 1 /\ Len(configImages) >= 1)
  /\ [][(Len(ActiveSet) = 1 /\ (KeyDel \/ ImageFailed)) => ActiveSet' = ActiveSet]_vars

\* The second image failed and was removed, then the only image left failed too.
C7_Witness ==
  /\ Len(ActiveSet) = 1
  /\ notes = <<MissingNote(2), MissingNote(1)>>

\* C8: pausing with a remainder timer armed cancels it and leaves nothing that
\* could display while paused; resuming calls preload for the index that was
\* to be shown next, with lastShownAt cleared, so that it shows as it loads.
C8_PauseResume ==
  [][/\ (KeySpace /\ ~paused /\ timers # {})
          => (paused' /\ timers' = {} /\ inflight' = {})
     /\ (KeySpace /\ paused /\ timers = {} /\ inflight = {})
          => ( /\ ~paused'
               /\ PreloadCalls' # {}
               /\ LastPreload'.index =
                    (IF ViewerNextIndex(St) >= Len(ActiveSet) THEN 0 ELSE ViewerNextIndex(St))
               /\ ~previousShow' )]_vars

\* C9: the timeout never goes below MINIMUM_TIMEOUT.
C9_TimeoutFloor == timeout >= MINIMUM_TIMEOUT

\* C10: no entry occurs twice in the note ledger.
C10_NotesUnique ==
  \A i, j \in 1 .. Len(notes) : i # j => notes[i] # notes[j]

\* C11: focus mode is a view: entering it and whatever happens inside it leave
\* the full configured collection as it is, and leaving it makes the active set
\* that collection again, same elements in the same order.
C11_FocusReversible ==
  [][/\ (~inFocus /\ inFocus') => configImages' = configImages
     /\ inFocus => configImages' = configImages
     /\ (inFocus /\ ~inFocus') => ActiveSet' = configImages]_vars

\* In focus on a/b/2, with a/b2/3 removed from the focus array by a failed load.
C11_Witness ==
  /\ inFocus
  /\ focusImages = <<2>>
  /\ configImages = <<1, 2, 3>>

\* The index next() gives to preload when image `index` is the one displayed.
AdvanceFrom(index) == next([Entry EXCEPT !.showIndex = index]).log[1].index

\* The displayed index after k automatic advances from `index`.
RECURSIVE Advanced(_, _)
Advanced(index, k) == IF k = 0 THEN index ELSE Advanced(AdvanceFrom(index), k - 1)

\* C12: the slideshow loops.  Every display is followed at once by the preload
\* of the next index, current + 1 or 0 at the end of the active set, and from
\* every index of the active set exactly length advances lead back to it.
C12_Loops ==
  /\ \A k \in 1 .. Len(log) :
       log[k].op = "show" =>
         /\ k < Len(log)
         /\ log[k + 1].op = "preload"
         /\ log[k + 1].index = (IF log[k].index + 1 >= log[k].len THEN 0 ELSE log[k].index + 1)
  /\ \A i \in 0 .. (Len(ActiveSet) - 1) :
       /\ Advanced(i, Len(ActiveSet)) = i
       /\ \A k \in 1 .. (Len(ActiveSet) - 1) : Advanced(i, k) # i

\* The last of three images has just been displayed and the first is requested.
C12_Witness ==
  /\ Len(ActiveSet) = 3
  /\ Len(log) = 2
  /\ log[1].op = "show" /\ log[1].index = 2
  /\ log[2].op = "preload" /\ log[2].index = 0
  /\ showIndex = 2

\* The last handler displayed an image.
Displayed == \E k \in 1 .. Len(log) : log[k].op = "show"

\* C13: while paused, the handler that displays an image starts no further
\* preload: the skipped-to image is displayed and the loop stops there.
C13_PausedShowsOnly == (paused /\ Displayed) => PreloadCalls = {}

\* C14: every manual change that calls preload (skip forward, skip back, delete
\* current, toggle focus) leaves no timer armed and lastShownAt cleared, so the
\* target is displayed the moment its preparation succeeds.
C14_ManualShowsAtOnce ==
  [][((KeyRight \/ KeyLeft \/ KeyDel \/ KeyF) /\ PreloadCalls' # {})
     => ( /\ ~previousShow'
          /\ showNextTimeout' = NULL
          /\ timers' = {} )]_vars

\* C15: a successful preparation is displayed at once when lastShownAt is absent
\* or the remainder timeout - elapsed is negative; otherwise nothing is displayed
\* and exactly one timer of length remainder is armed, and the image is
\* displayed when that timer fires.
C15_ShownWhenDue ==
  [][/\ \A r \in inflight, elapsed \in ElapsedSamples :
          Run(imageLoaded(Answered(r), r.item, r.index, elapsed))
          => IF ~previousShow \/ timeout - elapsed < 0
               THEN /\ Displayed'
                    /\ showNextTimeout' = NULL
                    /\ timers' = {}
               ELSE /\ ~Displayed'
                    /\ showIndex' = showIndex
                    /\ showNextTimeout' # NULL
                    /\ timers' = {[id |-> showNextTimeout', delay |-> timeout - elapsed]}
     /\ TimerFires => (Displayed' /\ showNextTimeout' = NULL /\ timers' = {})]_vars

\* The first of three images is on display, the second loaded 200 ms later and
\* waits for a timer of the remaining 500 ms.
C15_Witness ==
  /\ Len(ActiveSet) = 3
  /\ showIndex = 0
  /\ preloadIndex = 1
  /\ previousShow
  /\ showNextTimeout # NULL
  /\ timers = {[id |-> showNextTimeout, delay |-> 500]}
  /\ ~Displayed

\* The url up to and including its final '/'.
Dir(url) == PathOf(url) \o <<"/">>

\* C16: entering focus mode makes the active set exactly the configured items
\* whose url starts with the current image's url up to and including its final
\* '/', in their configured order.
C16_FocusSameDirectory ==
  [][(~inFocus /\ inFocus')
     => ActiveSet' = FilterSeq(configImages,
                               {i \in ImageIds : StartsWith(Url(i), Dir(Url(CurrentImage(St))))})]_vars

\* C17: with no current image, delete-current and focus-toggle change neither
\* the active set, the timer, lastShownAt, the pause flag nor the pending
\* preparation, and call no preload.
C17_NoCurrentNoOp ==
  [][(showIndex = NULL /\ (KeyDel \/ KeyF))
     => ( /\ UNCHANGED <<configImages, focusImages, inFocus, timers, showNextTimeout,
                         previousShow, paused, preloadIndex, preloadItem, inflight>>
          /\ PreloadCalls' = {} )]_vars

\* C18: in the older version, when the pending image (at preloadIndex of two or
\* more images) fails to load, it is that image which is removed, the displayed
\* one stays, and the preload that follows is given a valid index.
C18_OldFailedItemEvicted ==
  [][( /\ OldImageFailed
       /\ Len(configImages) >= 2
       /\ InRange(preloadIndex, Len(configImages)) )
     => ( /\ configImages' = Splice(configImages, preloadIndex)
          /\ PreloadCalls' # {}
          /\ InRange(LastPreload'.index, LastPreload'.len) )]_vars

\* C19: a failed load makes progress.  When the pending request fails while the
\* slideshow is not paused and the active set holds another image, the request
\* left pending is for another image: the failing one is not requested again.
C19_FailureMovesOn ==
  [][\A r \in inflight :
       ( /\ r = Pending
         /\ ~paused
         /\ Len(ActiveSet) >= 2
         /\ Len(notes) < MaxNotes
         /\ Run(imageFailed(Answered(r), r.item, r.index)) )
       => preloadItem' # r.item]_vars

\* images[viewer.showIndex] is the image on screen.
CurrentIsShown == ImageAt(St, showIndex) = shown

\* C20: the current-image reference stays true to the screen: a failed load and
\* a focus toggle, taken with images[viewer.showIndex] the image on screen,
\* leave it so.
C20_CurrentIsOnScreen ==
  [][(shown # 0 /\ CurrentIsShown /\ (ImageFailed \/ KeyF)) => CurrentIsShown']_vars

\* The images a sequence holds.
Members(seq) == {seq[k] : k \in 1 .. Len(seq)}

\* Images removed while in focus mode: configured, absent from the focus set,
\* and passing the focus filter.  (Every member of the focus set starts with the
\* path the set was filtered by, so an image that starts with a member's path
\* passed the filter on entry; config.images does not change while in focus.)
RemovedInFocus ==
  {i \in Members(configImages) \ Members(focusImages) :
     /\ inFocus
     /\ \E m \in Members(focusImages) : StartsWith(Url(i), PathOf(Url(m)))}

\* C21: a removed image stays removed.  No step puts an image back into the
\* configured collection, and no step makes an image that was removed in focus
\* mode a member of the active set, leaving focus mode included.
C21_RemovedStaysRemoved ==
  [][/\ Members(configImages') \subseteq Members(configImages)
     /\ \A i \in RemovedInFocus : i \notin Members(ActiveSet')]_vars

====
